---- MODULE Spec2Model ----
(***************************************************************************)
(* Sampling dashboard (src/app.py): simple random sampling without         *)
(* replacement and proportional stratified sampling over a data frame      *)
(* loaded once from a spreadsheet.                                         *)
(*                                                                         *)
(* The frame is modelled by the column the forms select (both selectboxes  *)
(* offer df.columns): df[r] is the cell of record r in that column.  A     *)
(* cell is Missing (an empty spreadsheet cell, NaN in pandas) or a value;  *)
(* values are named 1, 2, ... in order of first appearance in the column,  *)
(* and the records are numbered by cell: those with a missing cell first,  *)
(* then those of value 1, of value 2, ...  Nothing the script computes     *)
(* depends on the position of a record, so every frame is one of these up  *)
(* to the numbering of its records.                                        *)
(* A sample is a bag over the record indices: sample[r] is the number of   *)
(* times record r was drawn.                                               *)
(*                                                                         *)
(* The script is rerun from the top on every interaction: the page holds   *)
(* what the current run has rendered, nothing is kept between runs.        *)
(***************************************************************************)
EXTENDS Integers, Sequences, FiniteSets, TLC

\* Bound: the largest number of records of the loaded frame.
MaxUnits == 5

\* An empty cell (NaN).
Missing == 0

Sections == {"Introduction", "Dashboard", "SRS", "Stratified"}

VARIABLES
    df,        \* the loaded frame: sequence of cells of the selected column
    section,   \* the sidebar radio
    action,    \* the form submitted in the current run: "none", "srs", "strat"
    n,         \* the number_input value of the submitted form (0: none)
    counts,    \* stratified run: df[strata].value_counts()
    alloc,     \* stratified run: alloc after reconciliation
    error,     \* the exception that ended the current run, or "none"
    page       \* what the current run rendered and offers for download

vars == <<df, section, action, n, counts, alloc, error, page>>

total_units == Len(df)

----------------------------------------------------------------------------
\* Helpers

RECURSIVE SumSeq(_)
SumSeq(s) == IF s = <<>> THEN 0 ELSE Head(s) + SumSeq(Tail(s))

Rows(col) == DOMAIN col

\* Number of cells of col equal to v.
Count(col, v) == Cardinality({r \in Rows(col) : col[r] = v})

\* The distinct non-missing values of col.
Values(col) == {col[r] : r \in Rows(col)} \ {Missing}

FirstRow(col, v) == CHOOSE r \in Rows(col) :
                        col[r] = v /\ \A q \in Rows(col) : col[q] = v => r <= q

\* Series.value_counts(): the non-missing values with their counts, most
\* frequent first; equal counts keep the order of first appearance.
RECURSIVE SortCounts(_, _)
SortCounts(col, S) ==
    IF S = {} THEN <<>>
    ELSE LET g == CHOOSE v \in S : \A w \in S \ {v} :
                      \/ Count(col, v) > Count(col, w)
                      \/ /\ Count(col, v) = Count(col, w)
                         /\ FirstRow(col, v) < FirstRow(col, w)
         IN <<[g |-> g, N |-> Count(col, g)]>> \o SortCounts(col, S \ {g})

value_counts(col) == SortCounts(col, Values(col))

\* round() of the quotient num/den: to nearest, halves to the even integer.
\* (The code rounds the double N_h / total_units * n_tot; the two agree for
\* every frame of up to 21 records.)
RoundHalfEven(num, den) ==
    LET q == num \div den
        r == num % den
    IN IF 2 * r > den THEN q + 1
       ELSE IF 2 * r < den THEN q
       ELSE IF q % 2 = 0 THEN q ELSE q + 1

\* (counts / total_units * n_tot).round().astype(int)
RawAlloc(cnt, total, ntot) ==
    [i \in DOMAIN cnt |-> RoundHalfEven(cnt[i].N * ntot, total)]

LastMax(a) == CHOOSE i \in DOMAIN a :
                  /\ \A j \in DOMAIN a : a[j] <= a[i]
                  /\ \A j \in DOMAIN a : j > i => a[j] < a[i]

\* Series.idxmax(): the first position holding the maximum.
idxmax(a) == CHOOSE i \in DOMAIN a :
                 /\ \A j \in DOMAIN a : a[j] <= a[i]
                 /\ \A j \in DOMAIN a : j < i => a[j] < a[i]

ReconcileUpOnly(raw, ntot) ==
    LET diff == ntot - SumSeq(raw)
    IN IF diff > 0 THEN [raw EXCEPT ![idxmax(raw)] = @ + diff] ELSE raw

ReconcileLast(raw, ntot) ==
    LET diff == ntot - SumSeq(raw)
    IN IF diff # 0 THEN [raw EXCEPT ![LastMax(raw)] = @ + diff] ELSE raw

\* diff = n_tot - alloc.sum(); if diff != 0: alloc[alloc.idxmax()] += diff
Reconcile(raw, ntot) ==
    LET diff == ntot - SumSeq(raw)
    IN IF diff # 0 THEN [raw EXCEPT ![idxmax(raw)] = @ + diff] ELSE raw

SizeRangeUnchecked(total) == 0 .. total + 1

\* number_input(min_value=1, max_value=total_units)
SizeRange(total) == 1 .. total

AllRows(col, g) == {r \in Rows(col) : col[r] # Missing}

\* df[df[strata] == g]
StratumRows(col, g) == {r \in Rows(col) : col[r] = g}

DrawSizeOffByOne(s, Nh) == IF s < Nh THEN s ELSE Nh - 1

\* min(s, len(df[df[strata] == g]))
DrawSize(s, Nh) == IF s < Nh THEN s ELSE Nh

EmptyBag(total) == [r \in 1 .. total |-> 0]

BagSize(b) == SumSeq(b)

DrawsWithReplacement(rows, k, total) ==
    {b \in [1 .. total -> 0 .. k] :
        /\ \A r \in 1 .. total : r \notin rows => b[r] = 0
        /\ BagSize(b) = k}

\* rows.sample(n=k, replace=False): every k-subset of rows, once each.
Draws(rows, k, total) ==
    {[r \in 1 .. total |-> IF r \in S THEN 1 ELSE 0] :
        S \in {T \in SUBSET rows : Cardinality(T) = k}}

\* pd.concat of the per-stratum draws, strata i .. Len(cnt) in order.
RECURSIVE StratifiedDraws(_, _, _, _)
StratifiedDraws(col, cnt, al, i) ==
    IF i > Len(cnt) THEN {EmptyBag(Len(col))}
    ELSE LET rows == StratumRows(col, cnt[i].g)
         IN {[r \in 1 .. Len(col) |-> b[r] + rest[r]] :
                b \in Draws(rows, DrawSize(al[i], Cardinality(rows)), Len(col)),
                rest \in StratifiedDraws(col, cnt, al, i + 1)}

----------------------------------------------------------------------------
\* Comparison table.  A proportion is a pair <<numerator, denominator>>;
\* NaNCell is the entry concat leaves where a series has no such label.

NaNCell == <<0, 0>>
Zero == <<0, 1>>

\* Number of drawn records of bag b whose cell equals v.
CountIn(col, b, v) == SumSeq([r \in 1 .. Len(col) |-> IF col[r] = v THEN b[r] ELSE 0])

NonMissingIn(col, b) ==
    SumSeq([r \in 1 .. Len(col) |-> IF col[r] # Missing THEN b[r] ELSE 0])

\* frame[comp_var].value_counts(normalize=True) of the records of bag b:
\* the shares among the non-missing cells.
Proportions(col, b) ==
    [v \in {w \in Values(col) : CountIn(col, b, w) > 0} |->
        <<CountIn(col, b, v), NonMissingIn(col, b)>>]

\* pd.concat([pop_props, samp_props], axis=1)
ConcatColumns(p, s) ==
    [v \in DOMAIN p \cup DOMAIN s |->
        [pop  |-> IF v \in DOMAIN p THEN p[v] ELSE NaNCell,
         samp |-> IF v \in DOMAIN s THEN s[v] ELSE NaNCell]]

KeepNaN(t) == t

\* .fillna(0)
fillna(t) ==
    [v \in DOMAIN t |->
        [pop  |-> IF t[v].pop = NaNCell THEN Zero ELSE t[v].pop,
         samp |-> IF t[v].samp = NaNCell THEN Zero ELSE t[v].samp]]

FullBag(col) == [r \in 1 .. Len(col) |-> 1]

CompareProportions(col, b) ==
    fillna(ConcatColumns(Proportions(col, FullBag(col)), Proportions(col, b)))

\* alloc_df: one row per stratum with N_h and n_h
AllocTable(cnt, al) ==
    [i \in DOMAIN cnt |-> [g |-> cnt[i].g, N_h |-> cnt[i].N, n_h |-> al[i]]]

----------------------------------------------------------------------------
\* Pages

BlankPage == [shown |-> {}, sample |-> <<>>, comp_df |-> <<>>, alloc_df |-> <<>>]

\* Cells are named in order of first appearance.
FirstAppearanceNamed(col) ==
    \A r \in Rows(col) :
        col[r] > 1 => \E q \in 1 .. r - 1 : col[q] = col[r] - 1

\* Records are numbered by cell, missing cells first.
NumberedByCell(col) ==
    \A r \in Rows(col) : r > 1 => col[r - 1] <= col[r]

Init ==
    /\ df \in UNION {[1 .. L -> 0 .. L] : L \in 1 .. MaxUnits}
    /\ FirstAppearanceNamed(df)
    /\ NumberedByCell(df)
    /\ section = "Introduction"
    /\ action = "none"
    /\ n = 0
    /\ counts = <<>>
    /\ alloc = <<>>
    /\ error = "none"
    /\ page = BlankPage

\* The sidebar radio changes: the script reruns with no form submitted.
Navigate ==
    /\ \E s \in Sections \ {section} : section' = s
    /\ action' = "none"
    /\ n' = 0
    /\ counts' = <<>>
    /\ alloc' = <<>>
    /\ error' = "none"
    /\ page' = BlankPage
    /\ UNCHANGED df

\* "Exécuter SRS"
SubmitSRS ==
    /\ section = "SRS"
    /\ \E size \in SizeRange(total_units) :
       \E sample \in Draws(Rows(df), size, total_units) :
          /\ n' = size
          /\ page' = [shown    |-> {"sample", "comp_df"},
                      sample   |-> sample,
                      comp_df  |-> CompareProportions(df, sample),
                      alloc_df |-> <<>>]
    /\ action' = "srs"
    /\ counts' = <<>>
    /\ alloc' = <<>>
    /\ error' = "none"
    /\ UNCHANGED <<df, section>>

\* "Exécuter Stratifié"
SubmitStratified ==
    /\ section = "Stratified"
    /\ \E n_tot \in SizeRange(total_units) :
        LET cnt == value_counts(df)
        IN /\ n' = n_tot
           /\ counts' = cnt
           /\ IF cnt = <<>>
              THEN \* idxmax of an empty series raises
                   /\ alloc' = <<>>
                   /\ error' = "ValueError:idxmax"
                   /\ page' = BlankPage
              ELSE LET al == Reconcile(RawAlloc(cnt, total_units, n_tot), n_tot)
                   IN /\ alloc' = al
                      /\ IF \E i \in DOMAIN al : al[i] < 0
                         THEN \* sample(n < 0) raises before anything is shown
                              /\ error' = "ValueError:sample"
                              /\ page' = BlankPage
                         ELSE /\ error' = "none"
                              /\ \E sampled \in StratifiedDraws(df, cnt, al, 1) :
                                   page' = [shown    |-> {"sample", "alloc_df"},
                                            sample   |-> sampled,
                                            comp_df  |-> <<>>,
                                            alloc_df |-> AllocTable(cnt, al)]
    /\ action' = "strat"
    /\ UNCHANGED <<df, section>>

Next == Navigate \/ SubmitSRS \/ SubmitStratified

Spec == Init /\ [][Next]_vars

----------------------------------------------------------------------------
\* Properties

Shown(what) == what \in page.shown

\* The records of the i-th stratum of the run.
StratumOf(i) == {r \in Rows(df) : df[r] = counts[i].g}

\* Number of drawn records of the page's sample that lie in rows.
DrawnIn(rows) ==
    SumSeq([r \in 1 .. total_units |-> IF r \in rows THEN page.sample[r] ELSE 0])

Capped(i) == IF alloc[i] < counts[i].N THEN alloc[i] ELSE counts[i].N

RawOfRun == RawAlloc(counts, total_units, n)

\* C1: whenever the stratified action has computed its allocation, the
\* reconciled n_h sum to the requested n_total exactly.
C1_AllocationSumsToTotal ==
    (action = "strat" /\ alloc # <<>>) => SumSeq(alloc) = n

\* C1 witness: an allocation table is shown whose raw rounding did not sum
\* to n_total, so the reconciliation acted.
C1_Witness ==
    /\ action = "strat" /\ Shown("alloc_df")
    /\ SumSeq(RawOfRun) # n
    /\ Len(alloc) >= 2

\* C2: after reconciliation every stratum has 0 <= n_h <= N_h, or else the
\* action ends in an error and shows no allocation table.
C2_AllocationWithinStrata ==
    action = "strat" =>
        /\ \/ \A i \in DOMAIN alloc : 0 <= alloc[i] /\ alloc[i] <= counts[i].N
           \/ error # "none" /\ ~Shown("alloc_df")
        /\ Shown("alloc_df") =>
              \A i \in DOMAIN page.alloc_df :
                 0 <= page.alloc_df[i].n_h /\ page.alloc_df[i].n_h <= page.alloc_df[i].N_h

\* C3: the stratified sample holds exactly min(n_h, N_h) records of every
\* stratum h of the allocation, only records of those strata, and no record
\* twice; its size is the sum of the capped shares.
C3_StratifiedSample ==
    (action = "strat" /\ Shown("sample")) =>
        /\ \A i \in DOMAIN alloc : DrawnIn(StratumOf(i)) = Capped(i)
        /\ \A r \in Rows(df) : page.sample[r] <= 1
        /\ \A r \in Rows(df) :
              page.sample[r] > 0 => \E i \in DOMAIN alloc : r \in StratumOf(i)
        /\ BagSize(page.sample) = SumSeq([i \in DOMAIN alloc |-> Capped(i)])
        \* single stratum of 7 records, n_total = 5: the share is 5
        /\ Reconcile(RawAlloc(<<[g |-> 1, N |-> 7]>>, 7, 5), 5) = <<5>>

\* C3 witness: a stratified sample over several strata, one of them capped
\* at its population and another one drawn from.
C3_Witness ==
    /\ action = "strat" /\ Shown("sample")
    /\ \E i, j \in DOMAIN alloc :
          /\ alloc[i] > counts[i].N
          /\ i # j /\ alloc[j] > 0

\* C4: the SRS sample has exactly n records, all records of the frame, none
\* twice; with n = total_units it holds every record once.
C4_SRSSample ==
    action = "srs" =>
        /\ Shown("sample")
        /\ DOMAIN page.sample = Rows(df)
        /\ BagSize(page.sample) = n
        /\ \A r \in Rows(df) : page.sample[r] <= 1
        /\ n = total_units => \A r \in Rows(df) : page.sample[r] = 1

\* C4 witness: a proper sample (1 < n < total_units) has been drawn.
C4_Witness ==
    /\ action = "srs" /\ 1 < n /\ n < total_units
    /\ BagSize(page.sample) = n

\* C5: the whole diff goes to the first stratum, in the allocation's order,
\* among those with the largest raw share; every other stratum keeps its
\* raw share; with diff = 0 nothing changes.
C5_Reconciliation ==
    /\ (action = "strat" /\ alloc # <<>>) =>
          LET diff == n - SumSeq(RawOfRun)
              largest == {i \in DOMAIN RawOfRun :
                            \A j \in DOMAIN RawOfRun : RawOfRun[j] <= RawOfRun[i]}
              first == CHOOSE i \in largest : \A j \in largest : i <= j
          IN \A i \in DOMAIN alloc :
                alloc[i] = RawOfRun[i] + (IF i = first THEN diff ELSE 0)
    \* strata {A:600, B:300, C:100}, n_total = 100
    /\ LET c == <<[g |-> 1, N |-> 600], [g |-> 2, N |-> 300], [g |-> 3, N |-> 100]>>
       IN /\ RawAlloc(c, 1000, 100) = <<60, 30, 10>>
          /\ Reconcile(RawAlloc(c, 1000, 100), 100) = <<60, 30, 10>>

\* C5 witness: several strata tie for the largest raw share and the diff is
\* not zero.
C5_Witness ==
    /\ action = "strat" /\ alloc # <<>>
    /\ SumSeq(RawOfRun) # n
    /\ \E i, j \in DOMAIN alloc :
          /\ i < j /\ RawOfRun[i] = RawOfRun[j]
          /\ \A k \in DOMAIN alloc : RawOfRun[k] <= RawOfRun[i]

C7_StrataPartition ==
    action = "strat" =>
        /\ SumSeq([i \in DOMAIN counts |-> counts[i].N]) = total_units
        /\ \A r \in Rows(df) :
              Cardinality({i \in DOMAIN counts : r \in StratumOf(i)}) = 1

\* Cross-multiplied equality of the proportion p with num/den.
IsFraction(p, num, den) == p[2] # 0 /\ p[1] * den = num * p[2]

CompRows == Values(df)

\* C8 as stated: one row per distinct value, holding the fraction of all
\* population records and of all sample records equal to it, never null.
C8_AsStated ==
    action = "srs" =>
        /\ DOMAIN page.comp_df = CompRows
        /\ \A v \in DOMAIN page.comp_df :
              /\ IsFraction(page.comp_df[v].pop, Count(df, v), total_units)
              /\ IsFraction(page.comp_df[v].samp, CountIn(df, page.sample, v), n)

\* C8 amended: one row per distinct non-missing value; each proportion is
\* the share among the records whose cell is not missing (population, resp.
\* sample); a value absent from the sample has sample proportion 0, never
\* a null entry.
C8_Comparison ==
    action = "srs" =>
        /\ DOMAIN page.comp_df = CompRows
        /\ \A v \in DOMAIN page.comp_df :
              LET row == page.comp_df[v]
                  inSample == CountIn(df, page.sample, v)
              IN /\ row.pop # NaNCell /\ row.samp # NaNCell
                 /\ IsFraction(row.pop, Count(df, v),
                               total_units - Count(df, Missing))
                 /\ inSample = 0 => row.samp = Zero
                 /\ inSample > 0 =>
                       IsFraction(row.samp, inSample, NonMissingIn(df, page.sample))

\* C8 witness: a value of the population is absent from the sample and the
\* column has a missing cell.
C8_Witness ==
    /\ action = "srs"
    /\ Count(df, Missing) > 0
    /\ \E v, w \in DOMAIN page.comp_df :
          CountIn(df, page.sample, v) = 0 /\ CountIn(df, page.sample, w) > 0

\* C9: a run that ends in an error leaves the results on the page as they
\* were.
C9_FailureKeepsResults ==
    [][error' # "none" => page' = page]_vars

\* C10: a completed stratified run draws at most n_total records, and
\* exactly n_total if and only if no n_h exceeds its N_h.
C10_SampleSize ==
    (action = "strat" /\ error = "none") =>
        /\ BagSize(page.sample) <= n
        /\ (BagSize(page.sample) = n) <=>
              (\A i \in DOMAIN alloc : alloc[i] <= counts[i].N)

\* C10 witness: a completed run with a capped stratum, hence a short sample.
C10_Witness ==
    /\ action = "strat" /\ error = "none"
    /\ \E i \in DOMAIN alloc : alloc[i] > counts[i].N
    /\ BagSize(page.sample) < n

====
